---- MODULE Spec2Model ----
(***************************************************************************)
(* A model of simdcsv: the nibble-lookup byte classifier (classifier.rs),  *)
(* the 16-lane vector shim (u8x16.rs) and the bitmap reader (reader.rs).   *)
(*                                                                         *)
(* A byte is a number in 0..255.  A u8x16 is a sequence of 16 bytes, lane  *)
(* j of the source being element j + 1.  A u16 / u64 is the set of the     *)
(* positions of its set bits (bit k has the value 2^k), so a 64-bit word   *)
(* keeps its full width: a left shift drops what leaves bit 63.            *)
(***************************************************************************)
EXTENDS Integers, Sequences, FiniteSets

VARIABLES
    data,               \* the input buffer (CsvClassifier.data), a sequence of bytes
    pc,                 \* where the program is: classify, read, scan, done, or a panic
    cursor,             \* CsvClassifier.cursor
    vectors,            \* the class vectors classify() has pushed so far
    comma_bitsets,      \* CsvReader.comma_bitsets
    new_line_bitsets,   \* CsvReader.new_line_bitsets
    quotation_bitsets,  \* CsvReader.quotation_bitsets
    i,                  \* read(): the word index of the for loop
    valid_quotations,   \* read(): local of the current word
    outside_quotations, \* read(): local of the current word
    valid_commas,       \* read(): local of the current word
    valid_new_line,     \* read(): local of the current word
    start,              \* read(): start of the field being scanned
    end,                \* read(): the running cursor
    current_row,        \* read(): the row being accumulated
    rows,               \* read(): the rows closed so far; the result when pc = "done"
    spins,              \* how many wrapped shifts by 64 have been taken
    overflow_checks     \* the build: TRUE with overflow checks (debug), FALSE
                        \* without (release); fixed for the run

vars == <<data, pc, cursor, vectors, comma_bitsets, new_line_bitsets,
          quotation_bitsets, i, valid_quotations, outside_quotations,
          valid_commas, valid_new_line, start, end, current_row, rows, spins,
          overflow_checks>>

----------------------------------------------------------------------------
(* Bounds of the model. *)

\* longest free part of an input
MaxBody == 4
\* the lengths of the run of letters put before the free part: none, one that
\* brings the input to the end of the first 16-byte vector, one that brings it
\* to the end of the first 64-byte word
PadVector == 12
PadWord == 61
\* how many iterations of the non-terminating release-build loop are followed
MaxSpin == 2

----------------------------------------------------------------------------
(* Program constants. *)

COMMA_CLASS == 1
NEW_LINE_CLASS == 2
QUOTATION_CLASS == 3
LANE_COUNT == 16
WORD_BITS == 64

LO_LOOKUP ==
    <<0, 0, QUOTATION_CLASS, 0, 0, 0, 0, 0, 0, 0,
      NEW_LINE_CLASS, 0, COMMA_CLASS, NEW_LINE_CLASS, 0, 0>>

\* COMMA_CLASS | QUOTATION_CLASS = 1 | 3 = 3
HI_LOOKUP ==
    <<NEW_LINE_CLASS, 0, 3, 0, 0, 0, 0, 0, 0, 0, 0, 0, 0, 0, 0, 0>>

\* the four delimiter bytes: 0x0A, 0x0D, 0x22 and 0x2C
LF == 10
CR == 13
QUOTE == 34
COMMA == 44

\* the bytes the inputs are made of: the delimiters, a letter (0x61) and a
\* hyphen (0x2D)
Alphabet == {COMMA, QUOTE, LF, CR, 97, 45}

----------------------------------------------------------------------------
(* Integer and bit helpers. *)

Min(a, b) == IF a < b THEN a ELSE b

RECURSIVE Pow2(_)
Pow2(n) == IF n = 0 THEN 1 ELSE 2 * Pow2(n - 1)

\* the set bits of a byte
ByteBits(n) == {k \in 0..7 : (n \div Pow2(k)) % 2 = 1}

\* u8 & u8
BitAnd8(a, b) ==
    LET both == ByteBits(a) \cap ByteBits(b)
        RECURSIVE Sum(_)
        Sum(k) == IF k > 7 THEN 0
                  ELSE (IF k \in both THEN Pow2(k) ELSE 0) + Sum(k + 1)
    IN Sum(0)

\* 64-bit words as sets of bit positions
Word == 0..(WORD_BITS - 1)
Shl(x, n) == {k + n : k \in x} \cap Word
Shr(x, n) == {k - n : k \in {j \in x : j >= n}}
Xor(x, y) == (x \ y) \cup (y \ x)
Not(x) == Word \ x

\* u64::leading_zeros
leading_zeros(x) ==
    IF x = {} THEN WORD_BITS
    ELSE (WORD_BITS - 1) - (CHOOSE k \in x : \A j \in x : j <= k)

----------------------------------------------------------------------------
(* u8x16.rs *)

from_slice_unchecked(slice) == [j \in 1..LANE_COUNT |-> slice[j]]

broadcast(value) == [j \in 1..LANE_COUNT |-> value]

\* (hi, lo): each lane shifted right by 4 and masked, each lane masked
nibbles(v) ==
    << [j \in 1..LANE_COUNT |-> (v[j] \div 16) % 16],
       [j \in 1..LANE_COUNT |-> v[j] % 16] >>

\* vqtbl1q_u8: table lookup by lane value, 0 for an index out of the table
tbl_classify(table, values) ==
    [j \in 1..LANE_COUNT |->
        IF values[j] < LANE_COUNT THEN table[values[j] + 1] ELSE 0]

\* vceqq_u8: all ones where the lanes are equal
eq(v, other) == [j \in 1..LANE_COUNT |-> IF v[j] = other[j] THEN 255 ELSE 0]

\* vandq_u8
bitand(v, rhs) == [j \in 1..LANE_COUNT |-> BitAnd8(v[j], rhs[j])]

\* a u16 with bit 15 - lane set for every nonzero lane
bitset(v) == {15 - (j - 1) : j \in {l \in 1..LANE_COUNT : v[l] # 0}}

----------------------------------------------------------------------------
(* classifier.rs *)

\* the body of classify()'s loop after the load: the class of every lane
classify_lanes(lanes) ==
    LET nb == nibbles(lanes)
    IN bitand(tbl_classify(from_slice_unchecked(HI_LOOKUP), nb[1]),
              tbl_classify(from_slice_unchecked(LO_LOOKUP), nb[2]))

\* load_u8x16, tail branch: the scratch array after the copy of the tail
temp_copy(slice) ==
    [j \in 1..LANE_COUNT |-> IF j <= Len(slice) THEN slice[j] ELSE 0]

\* load_u8x16, tail branch: temp[slice.len()] = 0x0A
temp_with_newline(slice) ==
    [temp_copy(slice) EXCEPT ![Len(slice) + 1] = LF]

\* load_u8x16: the first branch is taken
full_load(c, d) == c + LANE_COUNT < Len(d)

\* load_u8x16, tail branch: the rest of the input
tail_slice(c, d) == SubSeq(d, c + 1, Len(d))

\* load_u8x16, tail branch: the last byte asks for a synthetic newline
needs_newline(d) == d[Len(d)] # LF /\ d[Len(d)] # CR

----------------------------------------------------------------------------
(* reader.rs: the pure functions *)

remove_escaped_quotations(q) ==
    LET escaped1 == q \cap Shl(q, 1)
        escaped == escaped1 \cup Shr(escaped1, 1)
    IN q \cap Not(escaped)

mark_inside_quotations(x0) ==
    LET x1 == Xor(x0, Shl(x0, 1))
        x2 == Xor(x1, Shl(x1, 2))
        x3 == Xor(x2, Shl(x2, 4))
        x4 == Xor(x3, Shl(x3, 8))
        x5 == Xor(x4, Shl(x4, 16))
        x6 == Xor(x5, Shl(x5, 32))
    IN Shl(x6, 1)

\* a packing that puts the first vector in the low 16 bits
build_u64_low_first(chunks, bc) ==
    UNION {Shl(bitset(eq(chunks[k], bc)), (k - 1) * 16) : k \in 1..Len(chunks)}

build_u64(chunks, bc) ==
    UNION {Shl(bitset(eq(chunks[k], bc)), 48 - (k - 1) * 16) : k \in 1..Len(chunks)}

\* vectors.chunks(4): chunk c (from 1) of the class vectors
chunk_of(vs, c) == SubSeq(vs, 4 * (c - 1) + 1, Min(4 * c, Len(vs)))

\* vectors.len() / 4 + (vectors.len() % 4 != 0) as usize
capacity(vs) == Len(vs) \div 4 + (IF Len(vs) % 4 # 0 THEN 1 ELSE 0)

bitsets_of(vs, class) ==
    [c \in 1..capacity(vs) |-> build_u64(chunk_of(vs, c), broadcast(class))]

----------------------------------------------------------------------------
(* The inputs. *)

Bodies == UNION {[1..n -> Alphabet] : n \in 0..MaxBody}

Pads == {0, PadVector, PadWord}

Inputs == {[k \in 1..p |-> 97] \o b : p \in Pads, b \in Bodies}

\* the state after CsvClassifier::new(d)
Start(d, oc) ==
    /\ data = d
    /\ overflow_checks = oc
    /\ pc = "classify"
    /\ cursor = 0
    /\ vectors = <<>>
    /\ comma_bitsets = <<>>
    /\ new_line_bitsets = <<>>
    /\ quotation_bitsets = <<>>
    /\ i = 0
    /\ valid_quotations = {}
    /\ outside_quotations = {}
    /\ valid_commas = {}
    /\ valid_new_line = {}
    /\ start = 0
    /\ end = 0
    /\ current_row = <<>>
    /\ rows = <<>>
    /\ spins = 0

Init == \E d \in Inputs, oc \in BOOLEAN : Start(d, oc)

reader_vars == <<comma_bitsets, new_line_bitsets, quotation_bitsets, i,
                 valid_quotations, outside_quotations, valid_commas,
                 valid_new_line, start, end, current_row, rows, spins>>

----------------------------------------------------------------------------
(* CsvClassifier::classify, one iteration of its loop per action. *)

\* load_u8x16 takes 16 bytes of the input
LoadFull ==
    /\ pc = "classify"
    /\ cursor < Len(data)
    /\ full_load(cursor, data)
    /\ vectors' = Append(vectors,
          classify_lanes(from_slice_unchecked(
              SubSeq(data, cursor + 1, cursor + LANE_COUNT))))
    /\ cursor' = cursor + LANE_COUNT
    /\ UNCHANGED <<data, overflow_checks, pc>>
    /\ UNCHANGED reader_vars

\* load_u8x16 copies the tail into the scratch array
LoadTail ==
    /\ pc = "classify"
    /\ cursor < Len(data)
    /\ ~full_load(cursor, data)
    /\ LET slice == tail_slice(cursor, data)
       IN /\ needs_newline(data) => Len(slice) < LANE_COUNT
          /\ vectors' = Append(vectors,
                classify_lanes(from_slice_unchecked(
                    IF needs_newline(data) THEN temp_with_newline(slice)
                    ELSE temp_copy(slice))))
    /\ cursor' = Len(data)
    /\ UNCHANGED <<data, overflow_checks, pc>>
    /\ UNCHANGED reader_vars

\* load_u8x16: temp[slice.len()] with slice.len() = 16 is out of bounds
LoadTailPanic ==
    /\ pc = "classify"
    /\ cursor < Len(data)
    /\ ~full_load(cursor, data)
    /\ needs_newline(data)
    /\ Len(tail_slice(cursor, data)) >= LANE_COUNT
    /\ cursor' = Len(data)
    /\ pc' = "panic_index"
    /\ UNCHANGED <<data, overflow_checks, vectors>>
    /\ UNCHANGED reader_vars

\* classify() has returned; CsvReader::new packs the class vectors
New ==
    /\ pc = "classify"
    /\ cursor >= Len(data)
    /\ comma_bitsets' = bitsets_of(vectors, COMMA_CLASS)
    /\ new_line_bitsets' = bitsets_of(vectors, NEW_LINE_CLASS)
    /\ quotation_bitsets' = bitsets_of(vectors, QUOTATION_CLASS)
    /\ pc' = "read"
    /\ UNCHANGED <<data, overflow_checks, cursor, vectors, i, valid_quotations,
                   outside_quotations, valid_commas, valid_new_line, start,
                   end, current_row, rows, spins>>

----------------------------------------------------------------------------
(* CsvReader::read *)

\* the head of the for loop body: the masks of word i, and the fast path
ReadWord ==
    /\ pc = "read"
    /\ i < Len(quotation_bitsets)
    /\ LET vq == remove_escaped_quotations(quotation_bitsets[i + 1])
           oq == Not(mark_inside_quotations(vq))
           vc == comma_bitsets[i + 1] \cap oq
           vn == new_line_bitsets[i + 1] \cap oq
       IN /\ valid_quotations' = vq
          /\ outside_quotations' = oq
          /\ valid_commas' = vc
          /\ valid_new_line' = vn
          /\ IF vc = {} /\ vn = {}
             THEN /\ end' = end + WORD_BITS
                  /\ i' = i + 1
                  /\ pc' = "read"
             ELSE /\ end' = end
                  /\ i' = i
                  /\ pc' = "scan"
    /\ UNCHANGED <<data, overflow_checks, cursor, vectors, comma_bitsets, new_line_bitsets,
                   quotation_bitsets, start, current_row, rows, spins>>

first_comma == leading_zeros(valid_commas)
first_new_line == leading_zeros(valid_new_line)
bits_traveled == Min(first_comma, first_new_line)

\* the inner loop finds no structural bit left in the word
ScanBreak ==
    /\ pc = "scan"
    /\ bits_traveled = WORD_BITS
    /\ end' = (i + 1) * WORD_BITS
    /\ i' = i + 1
    /\ pc' = "read"
    /\ UNCHANGED <<data, overflow_checks, cursor, vectors, comma_bitsets, new_line_bitsets,
                   quotation_bitsets, valid_quotations, outside_quotations,
                   valid_commas, valid_new_line, start, current_row, rows,
                   spins>>

\* the inner loop from end += bits_traveled to end += 1, before the shifts
Emit ==
    LET e == end + bits_traveled
        row == IF start < e
               THEN Append(current_row, [start |-> start, end |-> e])
               ELSE current_row
        closes == start < e /\ first_new_line < first_comma
    IN /\ rows' = IF closes THEN Append(rows, row) ELSE rows
       /\ current_row' = IF closes THEN <<>> ELSE row
       /\ end' = e + 1

\* one iteration of the inner loop with a shift amount below 64
ScanConsume ==
    /\ pc = "scan"
    /\ bits_traveled + 1 < WORD_BITS
    /\ Emit
    /\ valid_commas' = Shl(valid_commas, bits_traveled + 1)
    /\ valid_new_line' = Shl(valid_new_line, bits_traveled + 1)
    /\ start' = end'
    /\ UNCHANGED <<data, overflow_checks, pc, cursor, vectors, comma_bitsets, new_line_bitsets,
                   quotation_bitsets, i, valid_quotations, outside_quotations,
                   spins>>

\* the shift by 64 with overflow checks (a debug build): valid_commas <<= 64
\* panics, before the words and start are assigned
ScanShiftPanic ==
    /\ pc = "scan"
    /\ overflow_checks
    /\ bits_traveled + 1 = WORD_BITS
    /\ Emit
    /\ pc' = "panic_shift"
    /\ start' = start
    /\ UNCHANGED <<data, overflow_checks, cursor, vectors, comma_bitsets, new_line_bitsets,
                   quotation_bitsets, i, valid_quotations, outside_quotations,
                   valid_commas, valid_new_line, spins>>

\* the shift by 64 without overflow checks (a release build): the amount is
\* taken modulo 64, the words are left as they are and the loop goes on
ScanShiftWrap ==
    /\ pc = "scan"
    /\ ~overflow_checks
    /\ bits_traveled + 1 = WORD_BITS
    /\ spins < MaxSpin
    /\ Emit
    /\ valid_commas' = Shl(valid_commas, (bits_traveled + 1) % WORD_BITS)
    /\ valid_new_line' = Shl(valid_new_line, (bits_traveled + 1) % WORD_BITS)
    /\ start' = end'
    /\ spins' = spins + 1
    /\ UNCHANGED <<data, overflow_checks, pc, cursor, vectors, comma_bitsets, new_line_bitsets,
                   quotation_bitsets, i, valid_quotations, outside_quotations>>

\* the for loop is over: read() returns rows
Return ==
    /\ pc = "read"
    /\ i >= Len(quotation_bitsets)
    /\ pc' = "done"
    /\ UNCHANGED <<data, overflow_checks, cursor, vectors, comma_bitsets, new_line_bitsets,
                   quotation_bitsets, i, valid_quotations, outside_quotations,
                   valid_commas, valid_new_line, start, end, current_row,
                   rows, spins>>

Next ==
    \/ LoadFull
    \/ LoadTail
    \/ LoadTailPanic
    \/ New
    \/ ReadWord
    \/ ScanBreak
    \/ ScanConsume
    \/ ScanShiftPanic
    \/ ScanShiftWrap
    \/ Return

Spec == Init /\ [][Next]_vars

\* the classifier alone, on every one-byte input
InitBytes == \E b \in 0..255, oc \in BOOLEAN : Start(<<b>>, oc)

NextBytes == LoadTail

SpecBytes == InitBytes /\ [][NextBytes]_vars

----------------------------------------------------------------------------
(* What the claims speak of. *)

N == Len(data)

\* the byte at position p (from 0) of the input
ByteAt(p) == data[p + 1]

\* read() has returned rows
Returned == pc = "done"

\* classify() has returned its class vectors
Classified == pc \in {"read", "scan", "done", "panic_shift"}

\* the fields of the rows
Fields ==
    UNION {{rows[r][f] : f \in 1..Len(rows[r])} : r \in 1..Len(rows)}

\* the class of lane p (from 0) of the class vectors
ClassAt(p) == vectors[(p \div LANE_COUNT) + 1][(p % LANE_COUNT) + 1]

LaneTotal == LANE_COUNT * Len(vectors)

\* the quote bytes before position p; p is outside quotes when they are even
QuotesBefore(p) == Cardinality({j \in 0..(p - 1) : ByteAt(j) = QUOTE})
OutsideQuotes(p) == QuotesBefore(p) % 2 = 0

IsDelimiter(p) == p < N /\ ByteAt(p) \in {COMMA, LF, CR}

\* the quote state machine of CSV: the position of the quote that is open at
\* position pos, -1 when none is; a quote directly followed by a quote inside
\* quotes is an escape
RECURSIVE OpenQuote(_, _)
OpenQuote(pos, open) ==
    IF pos >= N THEN open
    ELSE IF ByteAt(pos) # QUOTE THEN OpenQuote(pos + 1, open)
    ELSE IF open = -1 THEN OpenQuote(pos + 1, pos)
    ELSE IF pos + 1 < N /\ ByteAt(pos + 1) = QUOTE THEN OpenQuote(pos + 2, open)
    ELSE OpenQuote(pos + 1, -1)

\* the opening quote that is never closed, -1 when there is none
UnmatchedQuote == OpenQuote(0, -1)

\* a line terminator outside quotes: an LF, a CR, or the synthetic newline
\* after an unterminated tail
Terminator(p) ==
    /\ OutsideQuotes(p)
    /\ \/ p < N /\ ByteAt(p) \in {LF, CR}
       \/ p = N /\ N > 0 /\ needs_newline(data)

\* p ends a non-empty line; the LF of a CRLF ends none
EndsNonEmptyLine(p) == Terminator(p) /\ p > 0 /\ ~Terminator(p - 1)

NonEmptyLines == Cardinality({p \in 0..N : EndsNonEmptyLine(p)})

\* the masks of a word have been computed, and the word they are of
WordScanned ==
    \/ pc \in {"scan", "panic_shift"}
    \/ pc \in {"read", "done"} /\ i >= 1
ScannedWord ==
    quotation_bitsets[IF pc \in {"scan", "panic_shift"} THEN i + 1 ELSE i]

Odd(n) == n % 2 = 1

----------------------------------------------------------------------------
(* The claims. *)

\* C1: for each of the 256 byte values the class is COMMA iff the byte is
\* 0x2C, QUOTATION iff it is 0x22, NEWLINE iff it is 0x0A or 0x0D, and 0 for
\* every other byte.
C1_OnlyDelimitersHaveClass ==
    (pc = "classify" /\ Len(vectors) = 1) =>
        LET b == ByteAt(0)
            c == ClassAt(0)
        IN /\ c = COMMA_CLASS <=> b = COMMA
           /\ c = QUOTATION_CLASS <=> b = QUOTE
           /\ c = NEW_LINE_CLASS <=> b \in {LF, CR}
           /\ b \notin {COMMA, QUOTE, LF, CR} => c = 0

\* C2: a comma, LF or CR ends a field only if an even number of quote bytes
\* precede it, and lies within a returned field only if an odd number do.
\* Stated on the inputs whose quotes are all closed, where nothing depends on
\* how an unmatched quote is read (C8).
C2_DelimiterSplitsIffOutsideQuotes ==
    (Returned /\ UnmatchedQuote = -1) =>
        \A p \in 0..(N - 1) : IsDelimiter(p) =>
            /\ (\E f \in Fields : f.end = p) => OutsideQuotes(p)
            /\ (\E f \in Fields : f.start <= p /\ p < f.end) => ~OutsideQuotes(p)

\* C3: read() returns as many rows as the input has non-empty lines: a CRLF
\* counts once, a trailing newline adds none, and a terminator right after a
\* comma closes its row like any other.  Stated on the inputs made of letters,
\* commas, LF and CR, where every terminator is outside quotes.
C3_OneRowPerNonEmptyLine ==
    (Returned /\ \A p \in 0..(N - 1) : ByteAt(p) \in {97, COMMA, LF, CR}) =>
        Len(rows) = NonEmptyLines

\* C4: classify() does not fail on a non-empty input of any length N, and its
\* class vectors carry a synthetic NEWLINE at lane N, with zeros after it,
\* exactly when the last byte is neither LF nor CR.
C4_ClassifyTotalWithSyntheticNewline ==
    /\ pc # "panic_index"
    /\ (Classified /\ N > 0) =>
          IF needs_newline(data)
          THEN /\ N < LaneTotal
               /\ ClassAt(N) = NEW_LINE_CLASS
               /\ \A p \in (N + 1)..(LaneTotal - 1) : ClassAt(p) = 0
          ELSE \A p \in N..(LaneTotal - 1) : ClassAt(p) = 0

\* C5: read() does not fail and its inner loop makes progress: the shift
\* amount bits_traveled + 1 of the consume step is always below 64.
C5_ShiftAmountBelowWordSize ==
    /\ pc # "panic_shift"
    /\ spins = 0
    /\ pc = "scan" =>
          \/ bits_traveled = WORD_BITS
          \/ bits_traveled + 1 < WORD_BITS

\* C6: every field [s, e) of every row read() returns has 0 <= s <= e <= N.
C6_FieldsWithinInput ==
    Returned =>
        \A f \in Fields : 0 <= f.start /\ f.start <= f.end /\ f.end <= N

\* C6 witness: read() has returned a field that ends at the synthetic newline
\* of an input that reaches into the second bitmap word.
C6_FieldEndsAtSyntheticNewline ==
    /\ Returned
    /\ N > WORD_BITS
    /\ needs_newline(data)
    /\ \E f \in Fields : f.end = N /\ f.start < f.end

\* C7: consecutive fields f, g of a returned row have f.end < g.start and
\* g.start = f.end + 1, and the rows are in input order.  Stated on the inputs
\* made of letters, commas, LF and CR.
C7_OneSeparatorBetweenFields ==
    (Returned /\ \A p \in 0..(N - 1) : ByteAt(p) \in {97, COMMA, LF, CR}) =>
        /\ \A r \in 1..Len(rows) : \A f \in 1..(Len(rows[r]) - 1) :
              /\ rows[r][f].end < rows[r][f + 1].start
              /\ rows[r][f + 1].start = rows[r][f].end + 1
        /\ \A r \in 1..(Len(rows) - 1) :
              rows[r][Len(rows[r])].end < rows[r + 1][1].start

\* C8: when the input has an opening quote at p that is never closed, no
\* returned field ends after p.
C8_NothingAfterUnmatchedQuote ==
    (Returned /\ UnmatchedQuote # -1) =>
        \A f \in Fields : f.end <= UnmatchedQuote

\* C9: remove_escaped_quotations(q) is q when q has no two adjacent bits, keeps
\* every isolated bit, clears both bits of a pair, and of a run of exactly
\* three bits clears the lower two and keeps the most significant one.
C9_EscapedPairsRemoved ==
    WordScanned =>
        LET q == ScannedWord
            v == valid_quotations
        IN /\ (\A k \in q : k + 1 \notin q) => v = q
           /\ \A k \in q : (k - 1 \notin q /\ k + 1 \notin q) => k \in v
           /\ \A k \in q :
                 (k - 1 \notin q /\ k + 1 \in q /\ k + 2 \notin q) =>
                     (k \notin v /\ k + 1 \notin v)
           /\ \A k \in q :
                 (k - 1 \notin q /\ k + 1 \in q /\ k + 2 \in q /\ k + 3 \notin q) =>
                     (k \notin v /\ k + 1 \notin v /\ k + 2 \in v)

\* C10: bit k of mark_inside_quotations(valid) is set iff an odd number of
\* bits of valid are at positions k or above (the same or an earlier byte).
C10_InsideIffOddQuotesAtOrAbove ==
    WordScanned =>
        \A k \in Word :
            k \notin outside_quotations <=>
                Odd(Cardinality({j \in valid_quotations : j >= k}))

====
